---- MODULE Spec2Model ----
(***************************************************************************)
(* Model of menubox2.js (chzager/menubox): the Menubox2 / Menubox2Item     *)
(* object model, the registry Menubox2.instances, the single submenu timer *)
(* and the document level listeners.                                       *)
(*                                                                         *)
(* Objects live in a heap `boxes` (a sequence; the index is the object     *)
(* identity).  Every method of the source is an operator that maps a world *)
(* record W = [boxes, instances, timers, currentSubmenuTimerId, calls,     *)
(* observed] (calls and observed being those of the running handler) to    *)
(* the world after the call; every event handler / public call is one      *)
(* action that applies these operators.                                    *)
(*                                                                         *)
(* JS values: "undefined" and "null" are the tokens of the same name, an   *)
(* object reference is a heap index, 0 is the absent reference.            *)
(***************************************************************************)
EXTENDS Integers, Sequences, FiniteSets, TLC

VARIABLES
    boxes,                  \* heap of Menubox2 objects (with their items' elements)
    instances,              \* Menubox2.instances : Map<string, Menubox2>
    timers,                 \* timeouts armed by setTimeout and not yet fired or cleared
    currentSubmenuTimerId,  \* Menubox2.currentSubmenuTimerId (0 = never set)
    calls,                  \* callback invocations made by the last handled operation
    observed,               \* what each of these invocations finds when it is called
    last,                   \* the last handled operation, its arguments and its result
    layout                  \* viewport, scroll position and geometry of a menubox element

vars == <<boxes, instances, timers, currentSubmenuTimerId, calls, observed, last, layout>>

----------------------------------------------------------------------------
(* Bounds *)

\* number of root menuboxes constructed at run time
MaxRoots == 2

\* largest width and height of a menubox element, in px
MaxSize == 4

----------------------------------------------------------------------------
(* JS helpers *)

Has(r, f) == f \in DOMAIN r

\* Object.assign({}, base, over)
ObjectAssign(base, over) ==
    [f \in (DOMAIN base) \cup (DOMAIN over) |->
        IF f \in DOMAIN over THEN over[f] ELSE base[f]]

Max(a, b) == IF a >= b THEN a ELSE b

\* A JS Map is a sequence of <<key, value>> pairs in insertion order.
MapIndex(m, k) ==
    IF \E i \in 1..Len(m) : m[i][1] = k
    THEN CHOOSE i \in 1..Len(m) : m[i][1] = k
    ELSE 0

MapHas(m, k) == MapIndex(m, k) # 0

\* Map.get: 0 stands for undefined
MapGet(m, k) == IF MapHas(m, k) THEN m[MapIndex(m, k)][2] ELSE 0

\* Map.set: an existing key keeps its position
MapSet(m, k, v) ==
    IF MapHas(m, k)
    THEN [m EXCEPT ![MapIndex(m, k)] = <<k, v>>]
    ELSE Append(m, <<k, v>>)

\* Map.values(), in insertion order
MapValues(m) == [i \in 1..Len(m) |-> m[i][2]]

SeqRange(s) == {s[i] : i \in 1..Len(s)}

----------------------------------------------------------------------------
(* Program constants *)

SELECT_MODE == {"normal", "persistent", "multiselect", "multiselect_interactive"}

DefaultSubmenuDelay == 300

\* rendered height of one item element (layout, used by the "auto" transition)
ItemHeight == 20

----------------------------------------------------------------------------
(* Visibility *)

OffsetHeight(box) == Len(box.elems) * ItemHeight

\* width of the wrapper: layout constant
OffsetWidth(box) == 100

\* the value _setVisibility assigns for one transition entry
StyleValue(box, styleKey, styleValue) ==
    IF styleKey = "height" /\ styleValue = "auto"
    THEN ToString(OffsetHeight(box)) \o "px"
    ELSE IF styleKey = "width" /\ styleValue = "auto"
    THEN ToString(OffsetWidth(box)) \o "px"
    ELSE styleValue

\* a _setVisibility that unchecks the items of a menubox it hides
_setVisibility_unchecks(W, b, visible) ==
    LET box == W.boxes[b]
        styleIndex == IF visible THEN 2 ELSE 1
        style == [styleKey \in DOMAIN box.transistions |->
                    StyleValue(box, styleKey, box.transistions[styleKey][styleIndex])]
    IN  [W EXCEPT !.boxes[b].style = style,
                  !.boxes[b].elems = [e \in 1..Len(@) |->
                                         [@[e] EXCEPT !.checked = @ /\ visible]]]

\* Menubox2._setVisibility
_setVisibility(W, b, visible) ==
    LET box == W.boxes[b]
        styleIndex == IF visible THEN 2 ELSE 1
        style == [styleKey \in DOMAIN box.transistions |->
                    StyleValue(box, styleKey, box.transistions[styleKey][styleIndex])]
    IN  [W EXCEPT !.boxes[b].style = style]

\* the menubox is in the shown state: every style of its transition table has the
\* value of the shown state
Visible(box) ==
    \A styleKey \in DOMAIN box.transistions :
        box.style[styleKey] = StyleValue(box, styleKey, box.transistions[styleKey][2])

\* isMultiselect that forgets the interactive variant
isMultiselect_plainOnly(box) ==
    box.selectMode \in {"multiselect"}

\* get isMultiselect
isMultiselect(box) ==
    box.selectMode \in {"multiselect", "multiselect_interactive"}

----------------------------------------------------------------------------
(* close, closeSubmenus, closeAll *)

ClearTimeout(W, id) == [W EXCEPT !.timers = {t \in @ : t.id # id}]

RECURSIVE close(_, _, _), closeSubmenus(_, _), closeSubmenusLoop(_, _, _)

\* close that ignores its argument and always passes the closing on to the parent
close_ignoreArg(W, b, closeSubmenusArg) ==
    LET W1 == _setVisibility(W, b, FALSE)
    IN  IF W1.boxes[b].parentMenubox # 0
        THEN close(W1, W1.boxes[b].parentMenubox, "undefined")
        ELSE W1

\* close that does not pass the closing on to the parent menubox
close_noParent(W, b, closeSubmenusArg) ==
    LET W1 == _setVisibility(W, b, FALSE)
    IN  IF closeSubmenusArg = "true" THEN closeSubmenus(W1, b) ELSE W1

\* Menubox2.close(closeSubmenus); the argument is "true", "false" or "undefined"
close(W, b, closeSubmenusArg) ==
    LET W1 == _setVisibility(W, b, FALSE)
    IN  IF closeSubmenusArg = "true"
        THEN closeSubmenus(W1, b)
        ELSE IF W1.boxes[b].parentMenubox # 0
             THEN close(W1, W1.boxes[b].parentMenubox, "undefined")
             ELSE W1

\* a closeSubmenus loop that only looks at the first item
closeSubmenusLoop_firstOnly(W, b, k) ==
    LET values == MapValues(W.boxes[b].items)
    IN  IF k > 1 \/ k > Len(values) THEN W
        ELSE LET menuItem == W.boxes[b].elems[values[k]]
             IN  IF menuItem.submenu # 0
                 THEN closeSubmenusLoop(
                          close(closeSubmenus(W, menuItem.submenu), menuItem.submenu, "true"),
                          b, k + 1)
                 ELSE closeSubmenusLoop(W, b, k + 1)

\* the for loop of closeSubmenus over this.items.values(), from position k on
closeSubmenusLoop(W, b, k) ==
    LET values == MapValues(W.boxes[b].items)
    IN  IF k > Len(values) THEN W
        ELSE LET menuItem == W.boxes[b].elems[values[k]]
             IN  IF menuItem.submenu # 0
                 THEN closeSubmenusLoop(
                          close(closeSubmenus(W, menuItem.submenu), menuItem.submenu, "true"),
                          b, k + 1)
                 ELSE closeSubmenusLoop(W, b, k + 1)

\* closeSubmenus that does not clear the pending timeout
closeSubmenus_keepsTimer(W, b) ==
    closeSubmenusLoop(W, b, 1)

\* closeSubmenus that hides the menubox itself as well
closeSubmenus_hidesSelf(W, b) ==
    closeSubmenusLoop(_setVisibility(ClearTimeout(W, W.currentSubmenuTimerId), b, FALSE), b, 1)

\* Menubox2.closeSubmenus
closeSubmenus(W, b) ==
    LET W1 == IF W.currentSubmenuTimerId # 0
              THEN ClearTimeout(W, W.currentSubmenuTimerId)
              ELSE W
    IN  closeSubmenusLoop(W1, b, 1)

RECURSIVE closeAllLoop(_, _)
closeAllLoop(W, k) ==
    LET values == MapValues(W.instances)
    IN  IF k > Len(values) THEN W
        ELSE closeAllLoop(close(W, values[k], "undefined"), k + 1)

\* a closeAll that closes nothing
closeAll_none(W) ==
    W

\* static Menubox2.closeAll
closeAll(W) ==
    closeAllLoop(W, 1)

----------------------------------------------------------------------------
(* Construction *)

\* an item constructor that attaches the item callback also to an item with a submenu
ItemElement_callbackWins(properties, submenu) ==
    LET key == IF Has(properties, "key") THEN properties.key ELSE ""
    IN  [ cls     |-> IF key # "" THEN "menubox-item" ELSE "menubox-label",
          key     |-> key,
          checked |-> Has(properties, "checked") /\ properties.checked = TRUE,
          enabled |-> ~(Has(properties, "enabled") /\ properties.enabled = FALSE),
          submenu |-> submenu,
          onclick |-> IF key # "" /\ Has(properties, "callback")
                      THEN properties.callback ELSE "undefined" ]

\* the element a Menubox2Item wraps, with the handlers its constructor attaches
ItemElement(properties, submenu) ==
    LET key == IF Has(properties, "key") THEN properties.key ELSE ""
    IN  [ cls     |-> IF key # "" THEN "menubox-item" ELSE "menubox-label",
          key     |-> key,
          checked |-> Has(properties, "checked") /\ properties.checked = TRUE,
          enabled |-> ~(Has(properties, "enabled") /\ properties.enabled = FALSE),
          submenu |-> submenu,
          onclick |-> IF key # "" /\ submenu = 0 /\ Has(properties, "callback")
                      THEN properties.callback ELSE "undefined" ]

SeparatorElement ==
    [ cls |-> "menubox-separator", key |-> "", checked |-> FALSE, enabled |-> TRUE,
      submenu |-> 0, onclick |-> "undefined" ]

IsSeparator(itemDef) == Has(itemDef, "separator") /\ itemDef.separator = TRUE

\* a submenu definition in which a callback of the submenu's own definition wins
SubmenuDef_ownCallback(properties, parent) ==
    ObjectAssign([ callback |-> parent.callback ],
        ObjectAssign(properties.submenu,
            [ adjustment |-> [horizontal |-> "after", vertical |-> "submenu-top"],
              css        |-> "submenubox" ]))

\* the definition a Menubox2Item hands to the constructor of its submenu
SubmenuDef(properties, parent) ==
    ObjectAssign(properties.submenu,
        [ adjustment |-> [horizontal |-> "after", vertical |-> "submenu-top"],
          css        |-> "submenubox",
          callback   |-> parent.callback ])

RECURSIVE Menubox2(_, _, _, _), __setItems(_, _, _, _)

\* __setItems with the Menubox2Item constructor, for itemDefs[k], itemDefs[k+1], ...
__setItems(W, self, itemDefs, k) ==
    IF k > Len(itemDefs) THEN W
    ELSE
      LET itemDef == itemDefs[k] IN
      IF IsSeparator(itemDef)
      THEN __setItems([W EXCEPT !.boxes[self].elems = Append(@, SeparatorElement)],
                      self, itemDefs, k + 1)
      ELSE
        LET key     == IF Has(itemDef, "key") THEN itemDef.key ELSE ""
            hasSub  == key # "" /\ Has(itemDef, "submenu")
            submenu == IF hasSub THEN Len(W.boxes) + 1 ELSE 0
            W1 == IF hasSub
                  THEN Menubox2(W, W.boxes[self].id \o "." \o key,
                                SubmenuDef(itemDef, W.boxes[self]), self)
                  ELSE W
            e  == Len(W1.boxes[self].elems) + 1
            W2 == [W1 EXCEPT !.boxes[self].elems = Append(@, ItemElement(itemDef, submenu))]
            W3 == IF key # ""
                  THEN [W2 EXCEPT !.boxes[self].items = MapSet(@, key, e)]
                  ELSE W2
        IN  __setItems(W3, self, itemDefs, k + 1)

\* new Menubox2(id, options, _parentMenubox): the new object is boxes[Len(W.boxes) + 1]
Menubox2(W, id, options, _parentMenubox) ==
    LET self == Len(W.boxes) + 1
        transistions == ObjectAssign([visibility |-> <<"hidden", "visible">>],
                            IF Has(options, "transistions") THEN options.transistions
                            ELSE [visibility |-> <<"hidden", "visible">>])
        given == IF Has(options, "submenuDelay") /\ options.submenuDelay # 0
                 THEN options.submenuDelay ELSE DefaultSubmenuDelay
        this == [ id            |-> id,
                  parentMenubox |-> _parentMenubox,
                  selectMode    |-> IF Has(options, "selectMode") THEN options.selectMode
                                    ELSE "normal",
                  callback      |-> IF Has(options, "callback") THEN options.callback
                                    ELSE "undefined",
                  adjustment    |-> ObjectAssign([horizontal |-> "left", vertical |-> "below"],
                                        IF Has(options, "adjustment") THEN options.adjustment
                                        ELSE [horizontal |-> "left"]),
                  transistions  |-> transistions,
                  submenuDelay  |-> Max(given, 0),
                  style         |-> [styleKey \in DOMAIN transistions |-> ""],
                  place         |-> [by |-> "initial"],
                  context       |-> "undefined",
                  elems         |-> <<>>,
                  items         |-> <<>> ]
        W1 == [W EXCEPT !.boxes = Append(@, this)]
        W2 == __setItems(W1, self, IF Has(options, "items") THEN options.items ELSE <<>>, 1)
        W3 == [W2 EXCEPT !.instances = MapSet(@, id, self)]
    IN  closeAll(W3)

----------------------------------------------------------------------------
(* Menubox2Item accessors; a JS value is written as its literal *)

\* typeof val
typeof(val) ==
    IF val \in {"true", "false"} THEN "boolean"
    ELSE IF val \in {"0", "1"} THEN "number"
    ELSE IF val = "undefined" THEN "undefined"
    ELSE IF val = "null" THEN "object"
    ELSE "string"

\* get checked: classList.contains("checked")
get_checked(W, b, e) == W.boxes[b].elems[e].checked

\* get enabled: classList.contains("disabled") === false
get_enabled(W, b, e) == W.boxes[b].elems[e].enabled

\* a checked setter that coerces its argument instead of throwing
set_checked_coerces(W, b, e, val) ==
    [ world  |-> [W EXCEPT !.boxes[b].elems[e].checked =
                               val \notin {"false", "0", "null", "undefined", "''"}],
      thrown |-> "none" ]

\* set checked (val): the world after the assignment and the error it throws
set_checked(W, b, e, val) ==
    IF typeof(val) = "boolean"
    THEN [ world  |-> [W EXCEPT !.boxes[b].elems[e].checked = (val = "true")],
           thrown |-> "none" ]
    ELSE [ world |-> W, thrown |-> "TypeError" ]

\* set enabled (val): the world after the assignment and the error it throws
set_enabled(W, b, e, val) ==
    IF typeof(val) = "boolean"
    THEN [ world  |-> [W EXCEPT !.boxes[b].elems[e].enabled = ~(val = "false")],
           thrown |-> "none" ]
    ELSE [ world |-> W, thrown |-> "TypeError" ]

----------------------------------------------------------------------------
(* popup, toggle, getCheckedItems *)

\* an element reference <<b, e>> is the element of item e of box b; NoElement is an
\* anchorElement argument that is no HTMLElement (undefined or null)
NoElement == <<0, 0>>

\* where popup puts the box (element.style.top and left): at the pointer position of
\* the event, or adjusted to the anchor element, or where it is (place) without both
Placement(place, mouseEvent, anchorElement) ==
    IF anchorElement # NoElement
    THEN [by |-> "anchor", menubox |-> anchorElement[1], item |-> anchorElement[2]]
    ELSE IF mouseEvent = "event"
         THEN [by |-> "pointer"]
         ELSE place

\* popup that does not close the other menuboxes first
popup_keepOthers(W, b, mouseEvent, context, anchorElement) ==
    LET W2 == [W EXCEPT !.boxes[b].place = Placement(@, mouseEvent, anchorElement)]
        W3 == [W2 EXCEPT !.boxes[b].context = context]
    IN  _setVisibility(W3, b, TRUE)

\* Menubox2.popup(mouseEvent, context, anchorElement)
popup(W, b, mouseEvent, context, anchorElement) ==
    LET W1 == IF W.boxes[b].parentMenubox = 0 THEN closeAll(W) ELSE W
        W2 == [W1 EXCEPT !.boxes[b].place = Placement(@, mouseEvent, anchorElement)]
        W3 == [W2 EXCEPT !.boxes[b].context = context]
    IN  _setVisibility(W3, b, TRUE)

\* the value Menubox2.toggle returns
toggleResult(W, b) == W.boxes[b].style.visibility # "visible"

\* Menubox2.toggle(mouseEvent, context = null, anchorElement = null)
toggle(W, b, mouseEvent, context, anchorElement) ==
    LET ctx == IF context = "undefined" THEN "null" ELSE context
    IN  IF toggleResult(W, b)
        THEN popup(W, b, mouseEvent, ctx, anchorElement)
        ELSE close(W, b, "true")

RECURSIVE getCheckedItemsLoop(_, _, _)
getCheckedItemsLoop(box, k, result) ==
    LET values == MapValues(box.items)
    IN  IF k > Len(values) THEN result
        ELSE getCheckedItemsLoop(box, k + 1,
                 IF box.elems[values[k]].checked THEN Append(result, values[k]) ELSE result)

\* Menubox2.getCheckedItems: the checked items (element indices), in Map order
getCheckedItems(box) == getCheckedItemsLoop(box, 1, <<>>)

----------------------------------------------------------------------------
(* popup: placement of the element and clamping to the viewport.  A layout l is  *)
(* what the browser reports of one menubox element: visualViewport, the scroll   *)
(* position of the document, the element's position style, its size, padding    *)
(* and border, the height of its item list, the menubox's adjustment and the     *)
(* styles popup writes.  Lengths are integers (px).                              *)

\* a length style that is not set (null), lengths that are set being numbers of px
NullLength == -1

\* scrollPos of popup
scrollPos(l) ==
    IF l.position = "fixed" THEN [top |-> 0, left |-> 0]
    ELSE [top |-> l.scrollTop, left |-> l.scrollLeft]

\* the height the element is rendered with: its natural height, less what popup has
\* taken off the height of the item list
RenderedHeight(l) ==
    IF l.itemsStyle.height = NullLength THEN l.offsetHeight
    ELSE l.offsetHeight - (l.itemsOffsetHeight - l.itemsStyle.height)

\* this.element.getBoundingClientRect(): viewport coordinates
getBoundingClientRect(l) ==
    LET left == l.style.left - scrollPos(l).left
        top  == l.style.top - scrollPos(l).top
    IN  [ left |-> left, top |-> top, width |-> l.offsetWidth, height |-> RenderedHeight(l),
          right |-> left + l.offsetWidth, bottom |-> top + RenderedHeight(l) ]

\* _adjustToAnchor(menubox, anchorElement), anchorRect being the rectangle of the anchor
_adjustToAnchor(l, anchorRect) ==
    LET x == CASE l.adjustment.horizontal = "before" -> anchorRect.left - l.offsetWidth
               [] l.adjustment.horizontal = "right"  -> anchorRect.right - l.offsetWidth
               [] l.adjustment.horizontal = "after"  -> anchorRect.right
               [] OTHER                              -> anchorRect.left
        y == CASE l.adjustment.vertical = "submenu-top" ->
                      anchorRect.top - l.paddingTop - l.borderTopWidth
               [] l.adjustment.vertical = "above"  -> anchorRect.top - l.offsetHeight
               [] l.adjustment.vertical = "top"    -> anchorRect.top
               [] l.adjustment.vertical = "bottom" -> anchorRect.bottom - l.offsetHeight
               [] OTHER                            -> anchorRect.bottom
        scrolled == l.position # "fixed"
    IN  [l EXCEPT !.style = [ top  |-> IF scrolled THEN y + l.scrollTop ELSE y,
                              left |-> IF scrolled THEN x + l.scrollLeft ELSE x ]]

\* popup up to the call of _adjustToAnchor: the styles of the item list are reset and
\* the element is put at the pointer or at the anchor; p is the pair of arguments
\* mouseEvent and anchorElement
popupPlace(l, p) ==
    LET l1 == [l EXCEPT !.itemsStyle = [height |-> NullLength, overflowY |-> "null"]]
        l2 == IF p.mouseEvent = "event" /\ p.anchorElement = "undefined"
              THEN [l1 EXCEPT !.style = [ top  |-> p.clientY + scrollPos(l1).top,
                                          left |-> p.clientX + scrollPos(l1).left ]]
              ELSE l1
    IN  IF p.anchorElement # "undefined" THEN _adjustToAnchor(l2, p.anchorRect) ELSE l2

\* a clamping that pulls the element in even when that moves it left of or above the
\* scroll origin
popupClamp_noOrigin(l) ==
    LET elementRect == getBoundingClientRect(l)
        l1 == IF elementRect.right > l.viewport.width
              THEN [l EXCEPT !.style.left =
                        scrollPos(l).left + l.viewport.width - elementRect.width]
              ELSE l
    IN  IF elementRect.bottom > l.viewport.height
        THEN [l1 EXCEPT !.style.top =
                  scrollPos(l).top + l.viewport.height - elementRect.height]
        ELSE l1

\* popup, "prevent menubox exceeds viewport"
popupClamp(l) ==
    LET elementRect == getBoundingClientRect(l)
        l1 == IF elementRect.right > l.viewport.width
              THEN [l EXCEPT !.style.left =
                        Max(scrollPos(l).left,
                            scrollPos(l).left + l.viewport.width - elementRect.width)]
              ELSE l
        l2 == IF elementRect.bottom > l.viewport.height
              THEN [l1 EXCEPT !.style.top =
                        Max(scrollPos(l).top,
                            scrollPos(l).top + l.viewport.height - elementRect.height)]
              ELSE l1
    IN  IF elementRect.bottom > l.viewport.height /\ elementRect.height > l.viewport.height
        THEN [l2 EXCEPT !.itemsStyle =
                  [ height    |-> l.itemsOffsetHeight
                                    - (elementRect.height - l.viewport.height),
                    overflowY |-> "scroll" ]]
        ELSE l2

\* the geometry of Menubox2.popup(mouseEvent, context, anchorElement)
popupLayout(l, p) == popupClamp(popupPlace(l, p))

----------------------------------------------------------------------------
(* Click dispatch *)

\* what a callback called with item e of menubox b finds: the checked state of the
\* item and whether the menubox is shown
Observation(W, b, e) ==
    [ checked |-> W.boxes[b].elems[e].checked, visible |-> Visible(W.boxes[b]) ]

\* callback(menuItem), fn being the callback and menuItem item e of menubox b
Invoke(W, fn, b, e) ==
    [W EXCEPT !.calls = Append(@, [fn |-> fn, menubox |-> b, item |-> e]),
              !.observed = Append(@, Observation(W, b, e))]

\* event.target.closest(".menubox-item")?.dataset?.key for a click on element e of box b
ClosestItemKey(box, e) ==
    IF box.elems[e].cls = "menubox-item" THEN box.elems[e].key ELSE "undefined"

\* onMenuItemClick that also fires the callback in persistent mode
onMenuItemClick_persistentFires(W, b, e) ==
    LET menubox  == W.boxes[b]
        m        == MapGet(menubox.items, ClosestItemKey(menubox, e))
    IN  IF m # 0 /\ menubox.elems[m].enabled
        THEN
          LET menuItem == menubox.elems[m]
              W1 == IF isMultiselect(menubox)
                    THEN [W EXCEPT !.boxes[b].elems[m].checked = ~menuItem.checked]
                    ELSE W
              W2 == IF /\ menubox.selectMode \in {"normal", "persistent", "multiselect_interactive"}
                       /\ menuItem.submenu = 0
                       /\ menubox.callback # "undefined"
                    THEN Invoke(W1, menubox.callback, b, m)
                    ELSE W1
          IN  IF menuItem.submenu # 0
              THEN popup(W2, menuItem.submenu, "event", W2.boxes[b].context, <<b, m>>)
              ELSE IF menubox.selectMode = "normal"
                   THEN close(W2, b, "undefined")
                   ELSE W2
        ELSE W

\* onMenuItemClick that fires the callback first and toggles the checked state and
\* hides the menubox afterwards
onMenuItemClick_callbackFirst(W, b, e) ==
    LET menubox  == W.boxes[b]
        m        == MapGet(menubox.items, ClosestItemKey(menubox, e))
    IN  IF m # 0 /\ menubox.elems[m].enabled
        THEN
          LET menuItem == menubox.elems[m]
              W1 == IF /\ menubox.selectMode \in {"normal", "multiselect_interactive"}
                       /\ menuItem.submenu = 0
                       /\ menubox.callback # "undefined"
                    THEN Invoke(W, menubox.callback, b, m)
                    ELSE W
              W2 == IF isMultiselect(menubox)
                    THEN [W1 EXCEPT !.boxes[b].elems[m].checked = ~menuItem.checked]
                    ELSE W1
          IN  IF menuItem.submenu # 0
              THEN popup(W2, menuItem.submenu, "event", W2.boxes[b].context, <<b, m>>)
              ELSE IF menubox.selectMode = "normal"
                   THEN close(W2, b, "undefined")
                   ELSE W2
        ELSE W

\* static Menubox2.onMenuItemClick(event, menubox), event.target being element e
onMenuItemClick(W, b, e) ==
    LET menubox  == W.boxes[b]
        m        == MapGet(menubox.items, ClosestItemKey(menubox, e))
    IN  IF m # 0 /\ menubox.elems[m].enabled
        THEN
          LET menuItem == menubox.elems[m]
              W1 == IF isMultiselect(menubox)
                    THEN [W EXCEPT !.boxes[b].elems[m].checked = ~menuItem.checked]
                    ELSE W
              W2 == IF /\ menubox.selectMode \in {"normal", "multiselect_interactive"}
                       /\ menuItem.submenu = 0
                       /\ menubox.callback # "undefined"
                    THEN Invoke(W1, menubox.callback, b, m)
                    ELSE W1
          IN  IF menuItem.submenu # 0
              THEN popup(W2, menuItem.submenu, "event", W2.boxes[b].context, <<b, m>>)
              ELSE IF menubox.selectMode = "normal"
                   THEN close(W2, b, "undefined")
                   ELSE W2
        ELSE W

\* an item onclick handler that lets the click go on to the default click dispatch
ItemOnClick_thenDefault(W, b, e) ==
    IF W.boxes[b].elems[e].enabled
    THEN onMenuItemClick(Invoke(W, W.boxes[b].elems[e].onclick, b, e), b, e)
    ELSE W

\* an item onclick handler that does not look at the enabled state
ItemOnClick_ignoreEnabled(W, b, e) ==
    close(Invoke(W, W.boxes[b].elems[e].onclick, b, e), b, "undefined")

\* the onclick handler the Menubox2Item constructor attaches for an item callback
ItemOnClick(W, b, e) ==
    IF W.boxes[b].elems[e].enabled
    THEN close(Invoke(W, W.boxes[b].elems[e].onclick, b, e), b, "undefined")
    ELSE W

\* a window click listener that closes all menuboxes wherever the click was
WindowOnClick_always(W, closestMenubox) ==
    closeAll(W)

\* the window click listener; closestMenubox is the menubox whose element contains the
\* target (mouseEvent.target.closest("[data-menubox]")), 0 for null
WindowOnClick(W, closestMenubox) ==
    IF closestMenubox = 0 THEN closeAll(W) ELSE W

\* the window keydown listener
WindowOnKeyDown(W, code) ==
    IF code \in {"Escape"} THEN closeAll(W) ELSE W

\* a popup that never stops the propagation of the event
popupStopsPropagation_never(mouseEvent) ==
    FALSE

\* popup calls mouseEvent.stopPropagation() when it is handed the event
popupStopsPropagation(mouseEvent) ==
    mouseEvent = "event"

\* a click on an element of the page outside every menubox, whose onclick handler
\* calls menubox.popup(mouseEvent, context) on box b, mouseEvent being the click event
\* or undefined; unless stopped, the event goes on to the window listener
DispatchOpenerClick(W, b, mouseEvent, context) ==
    LET W1 == popup(W, b, mouseEvent, context, NoElement)
    IN  IF popupStopsPropagation(mouseEvent) THEN W1 ELSE WindowOnClick(W1, 0)

\* onMenuItemClick hands the click event to popup when the clicked item is an enabled
\* keyed item with a submenu
onMenuItemClickStopsPropagation(W, b, e) ==
    LET menubox == W.boxes[b]
        m       == MapGet(menubox.items, ClosestItemKey(menubox, e))
    IN  /\ m # 0
        /\ menubox.elems[m].enabled
        /\ menubox.elems[m].submenu # 0
        /\ popupStopsPropagation("event")

\* a click on element e of box b: the element's own handler stops the propagation;
\* otherwise the event bubbles to the handler of the menubox element and, unless that
\* one stops it, on to the window listener
DispatchClick(W, b, e) ==
    IF W.boxes[b].elems[e].onclick # "undefined"
    THEN ItemOnClick(W, b, e)
    ELSE IF onMenuItemClickStopsPropagation(W, b, e)
         THEN onMenuItemClick(W, b, e)
         ELSE WindowOnClick(onMenuItemClick(W, b, e), b)

----------------------------------------------------------------------------
(* Hover *)

\* setTimeout returns an id no pending timeout has; the stale id that
\* currentSubmenuTimerId may still hold is never handed out again
FreshTimerId(W) ==
    CHOOSE n \in 1..(Cardinality(W.timers) + 2) :
        /\ n # W.currentSubmenuTimerId
        /\ \A t \in W.timers : t.id # n
        /\ \A k \in 1..(n - 1) : k = W.currentSubmenuTimerId \/ \E t \in W.timers : t.id = k

\* element.onmouseenter of a Menubox2Item
ItemOnMouseEnter(W, b, e) ==
    LET W1 == closeSubmenus(W, b)
        id == FreshTimerId(W1)
    IN  IF W1.boxes[b].elems[e].submenu # 0
        THEN [W1 EXCEPT !.timers = @ \cup {[id |-> id, menubox |-> b, item |-> e,
                                             delay |-> W1.boxes[b].submenuDelay]},
                        !.currentSubmenuTimerId = id]
        ELSE W1

\* an onmouseleave handler that leaves the pending timeout alone
OnMouseLeave_keepsTimer(W, b) ==
    W

\* element.onmouseleave of a Menubox2
OnMouseLeave(W, b) ==
    IF W.currentSubmenuTimerId # 0 THEN ClearTimeout(W, W.currentSubmenuTimerId) ELSE W

\* the callback handed to setTimeout, run when timeout t fires
TimerCallback(W, t) ==
    popup([W EXCEPT !.timers = @ \ {t}],
          W.boxes[t.menubox].elems[t.item].submenu, "event",
          W.boxes[t.menubox].context, <<t.menubox, t.item>>)

----------------------------------------------------------------------------
(* Inputs: the definitions, ids, contexts and key codes a caller or user supplies *)

Contexts == {"ctxA"}

KeyCodes == {"Escape", "Enter"}

CloseArgs == {"true", "false", "undefined"}

\* the values a caller assigns to checked and enabled
AssignedValues == {"true", "false", "1", "0", "'true'", "''", "null", "undefined"}

\* a transition table that adds a height animation to the default visibility pair
HeightTransistions == [height |-> <<"0px", "auto">>]

\* a transition table that keeps the box rendered and animates its height only
SlideTransistions == [visibility |-> <<"visible", "visible">>, height |-> <<"0px", "auto">>]

SubZ == [ items |-> << [key |-> "w"] >> ]

SubX == [ callback |-> "subCb",
          items |-> << [key |-> "y"],
                       [key |-> "z", enabled |-> FALSE, submenu |-> SubZ] >> ]

SubV == [ items |-> << [key |-> "u"] >> ]

\* a menu in normal mode with a submenu that has a submenu of its own
ChainDef ==
    [ callback |-> "cb",
      items |-> << [key |-> "a"],
                   [key |-> "x", callback |-> "itemCb", submenu |-> SubX] >> ]

\* a menu with two sibling submenus
ForkDef(selectMode) ==
    [ selectMode |-> selectMode,
      callback   |-> "cb",
      items |-> << [key |-> "x", callback |-> "itemCb", submenu |-> SubV],
                   [key |-> "v", submenu |-> SubV] >> ]

LeafItems ==
    << [key |-> "a"],
       [key |-> "b", enabled |-> FALSE, checked |-> TRUE],
       [label |-> "L", checked |-> TRUE],
       [separator |-> TRUE],
       [key |-> "c", callback |-> "itemCb"],
       [key |-> "d", enabled |-> FALSE, callback |-> "itemCb"] >>

\* menus without submenus, in every select-mode, with and without a callback
LeafDefs ==
    { [ selectMode |-> selectMode, callback |-> "cb", items |-> LeafItems ] :
          selectMode \in SELECT_MODE }
    \cup
    { [ selectMode |-> selectMode, items |-> LeafItems ] : selectMode \in SELECT_MODE }
    \cup
    { [ callback |-> "cb", items |-> LeafItems, transistions |-> HeightTransistions ],
      [ callback |-> "cb", items |-> LeafItems, transistions |-> SlideTransistions ] }

\* a menu with one submenu
PairDef ==
    [ callback |-> "cb",
      items |-> << [key |-> "a"], [key |-> "x", submenu |-> SubV] >> ]

\* the ids and definitions of the menuboxes a page constructs and replaces at run time
RootIds == {"m1", "m2"}

RuntimeDefinitions(id) ==
    IF id = "m1" THEN { PairDef }
    ELSE { [ callback |-> "cb", items |-> << [key |-> "a"] >> ] }

\* the viewport of the layouts
ViewportWidth == 3
ViewportHeight == 3

\* the scroll offsets of the document
ScrollOffsets == {0, 2}

\* padding plus border of a menubox element, at each side
Paddings == {0, 1}

Adjustments ==
    [ horizontal : {"before", "left", "right", "after"},
      vertical   : {"above", "top", "bottom", "below", "submenu-top"} ]

\* the menubox elements as the browser lays them out before the first popup
Layouts ==
    { [ viewport          |-> [width |-> ViewportWidth, height |-> ViewportHeight],
        scrollLeft        |-> sx,
        scrollTop         |-> sy,
        position          |-> position,
        offsetWidth       |-> w,
        offsetHeight      |-> h,
        paddingTop        |-> 0,
        borderTopWidth    |-> pad,
        itemsOffsetHeight |-> h - 2 * pad,
        adjustment        |-> adjustment,
        style             |-> [top |-> 0, left |-> 0],
        itemsStyle        |-> [height |-> NullLength, overflowY |-> "null"] ] :
      sx \in ScrollOffsets, sy \in ScrollOffsets, position \in {"absolute", "fixed"},
      w \in 1..MaxSize, h \in 3..MaxSize, pad \in Paddings, adjustment \in Adjustments }

NoRect == [left |-> 0, right |-> 0, top |-> 0, bottom |-> 0]

\* the arguments mouseEvent and anchorElement of popup: no event, a pointer event
\* inside the viewport, or an anchor element
PopupArguments ==
    { [mouseEvent |-> "undefined", clientX |-> 0, clientY |-> 0,
       anchorElement |-> "undefined", anchorRect |-> NoRect] }
    \cup
    { [mouseEvent |-> "event", clientX |-> x, clientY |-> y,
       anchorElement |-> "undefined", anchorRect |-> NoRect] :
      x \in {0, ViewportWidth - 1}, y \in {0, ViewportHeight - 1} }
    \cup
    { [mouseEvent |-> "event", clientX |-> 1, clientY |-> 1,
       anchorElement |-> "element", anchorRect |-> r] :
      r \in { [left |-> 0, right |-> 1, top |-> 0, bottom |-> 1],
              [left |-> 2, right |-> 3, top |-> 2, bottom |-> 3] } }

\* the submenu delays a definition gives
SubmenuDelays == {-300, -1, 0, 1, 299, 300, 1000}

\* a menu with one submenu, without and with a submenu delay
DelayDefinitions ==
    { PairDef } \cup { ObjectAssign(PairDef, [submenuDelay |-> d]) : d \in SubmenuDelays }

\* the menus whose items a page checks, unchecks, enables and disables
ItemDefinitions ==
    { [ selectMode |-> selectMode, callback |-> "cb", items |-> LeafItems ] :
          selectMode \in {"normal", "multiselect"} }

Definitions ==
    {ChainDef} \cup {ForkDef(selectMode) : selectMode \in SELECT_MODE \ {"normal"}} \cup LeafDefs

----------------------------------------------------------------------------
(* State *)

\* no element is laid out
NoLayout == [position |-> "none"]

EmptyWorld ==
    [ boxes |-> <<>>, instances |-> <<>>, timers |-> {},
      currentSubmenuTimerId |-> 0, calls |-> <<>>, observed |-> <<>> ]

World ==
    [ boxes |-> boxes, instances |-> instances, timers |-> timers,
      currentSubmenuTimerId |-> currentSubmenuTimerId, calls |-> <<>>, observed |-> <<>> ]

\* the record of an operation: its name, the menubox and item it is called on, its
\* argument, the value it returns and what held before: for toggle and click whether
\* the menubox was visible, for mouseenter whether a timeout was pending, for
\* closeSubmenus whether a timeout was pending and a submenu of the menubox visible,
\* for new whether the id was registered and some registered menubox visible, for a
\* click outside and a key-down whether some registered menubox was visible
Op(op, b, e, arg, result) ==
    [ op |-> op, box |-> b, item |-> e, arg |-> arg, result |-> result, before |-> FALSE ]

\* the objects script can still reach: the registered instances and the menuboxes a
\* pending timeout's closure refers to, with their parents and submenus
RECURSIVE Reachable(_, _)
Reachable(W, S) ==
    LET N == S \cup {W.boxes[b].parentMenubox : b \in S}
               \cup UNION {{W.boxes[b].elems[e].submenu : e \in 1..Len(W.boxes[b].elems)} : b \in S}
        T == {b \in N : b # 0 /\ ~Has(W.boxes[b], "collected")}
    IN  IF T = S THEN S ELSE Reachable(W, T)

\* what is left of a replaced menubox once nothing refers to it any more
Collected(box) ==
    [ id |-> box.id, parentMenubox |-> box.parentMenubox, collected |-> TRUE,
      elems |-> <<>>, items |-> <<>> ]

\* a replaced menubox (its element removed from the document, its registry entry
\* overwritten) that no pending timeout refers to is garbage
Collect(W) ==
    LET live == Reachable(W, SeqRange(MapValues(W.instances))
                             \cup {t.menubox : t \in W.timers})
    IN  [W EXCEPT !.boxes = [b \in 1..Len(@) |->
                                IF b \in live \/ Has(@[b], "collected") THEN @[b]
                                ELSE Collected(@[b])]]

Becomes(W, lastOp) ==
    /\ boxes' = Collect(W).boxes
    /\ instances' = W.instances
    /\ timers' = W.timers
    /\ currentSubmenuTimerId' = W.currentSubmenuTimerId
    /\ calls' = W.calls
    /\ observed' = W.observed
    /\ last' = lastOp
    /\ layout' = layout

\* the heap objects
Boxes == 1..Len(boxes)

\* the menuboxes whose element is in the document: the registered instances
Attached == SeqRange(MapValues(instances))

Roots == {b \in Boxes : boxes[b].parentMenubox = 0}

\* the state after the page has constructed its menubox "m1" from a definition
Init ==
    \E options \in Definitions :
        LET W == Menubox2(EmptyWorld, "m1", options, 0)
        IN  /\ boxes = W.boxes
            /\ instances = W.instances
            /\ timers = W.timers
            /\ currentSubmenuTimerId = W.currentSubmenuTimerId
            /\ calls = <<>>
            /\ observed = <<>>
            /\ last = Op("new", 1, 0, "m1", "undefined")
            /\ layout = NoLayout

----------------------------------------------------------------------------
(* Actions *)

\* menubox.popup(mouseEvent, context)
Popup ==
    \E b \in Attached, context \in Contexts :
        Becomes(popup(World, b, "event", context, NoElement),
                Op("popup", b, 0, context, "undefined"))

\* menubox.close(closeSubmenus)
Close ==
    \E b \in Attached, arg \in CloseArgs :
        Becomes(close(World, b, arg), Op("close", b, 0, arg, "undefined"))

\* menubox.toggle(mouseEvent, context)
Toggle ==
    \E b \in Attached, context \in Contexts :
        Becomes(toggle(World, b, "event", context, NoElement),
                [Op("toggle", b, 0, context, toggleResult(World, b))
                    EXCEPT !.before = Visible(boxes[b])])

\* menubox.closeSubmenus()
CloseSubmenus ==
    \E b \in Attached :
        Becomes(closeSubmenus(World, b),
                [Op("closeSubmenus", b, 0, "undefined", "undefined")
                    EXCEPT !.before = /\ timers # {}
                                      /\ \E d \in Attached : /\ boxes[d].parentMenubox = b
                                                             /\ Visible(boxes[d])])

\* Menubox2.closeAll()
CloseAll ==
    \E W \in {closeAll(World)} :
        Becomes(W, Op("closeAll", 0, 0, "undefined", "undefined"))

\* the user clicks element e of menubox b
ClickItem ==
    \E b \in Attached :
        \E e \in 1..Len(boxes[b].elems) :
            Becomes(DispatchClick(World, b, e),
                    [Op("click", b, e, "undefined", "undefined")
                        EXCEPT !.before = Visible(boxes[b])])

\* the user clicks outside every menubox: the window click listener
ClickOutside ==
    \E W \in {WindowOnClick(World, 0)} :
        Becomes(W, [Op("clickOutside", 0, 0, "undefined", "undefined")
                       EXCEPT !.before = \E b \in Attached : Visible(boxes[b])])

\* the window keydown listener
KeyDown ==
    \E code \in KeyCodes :
        \E W \in {WindowOnKeyDown(World, code)} :
            Becomes(W, [Op("keydown", 0, 0, code, "undefined")
                           EXCEPT !.before = \E b \in Attached : Visible(boxes[b])])

\* the pointer enters the element of item or label e of menubox b
MouseEnter ==
    \E b \in Attached :
        \E e \in 1..Len(boxes[b].elems) :
            /\ boxes[b].elems[e].cls # "menubox-separator"
            /\ Becomes(ItemOnMouseEnter(World, b, e),
                       [Op("mouseenter", b, e, "undefined", "undefined")
                           EXCEPT !.before = (timers # {})])

\* the pointer leaves the element of menubox b
MouseLeave ==
    \E b \in Attached :
        Becomes(OnMouseLeave(World, b), Op("mouseleave", b, 0, "undefined", "undefined"))

\* a pending timeout fires
TimerFire ==
    \E t \in timers :
        Becomes(TimerCallback(World, t),
                Op("timer", t.menubox, t.item, "undefined", "undefined"))

Next ==
    \/ Popup
    \/ Close
    \/ Toggle
    \/ CloseSubmenus
    \/ CloseAll
    \/ ClickItem
    \/ ClickOutside
    \/ KeyDown
    \/ MouseEnter
    \/ MouseLeave
    \/ TimerFire

Spec == Init /\ [][Next]_vars

----------------------------------------------------------------------------
(* The registry: menuboxes constructed and replaced at run time *)

\* the state after the script has been loaded
InitRegistry ==
    /\ boxes = <<>>
    /\ instances = <<>>
    /\ timers = {}
    /\ currentSubmenuTimerId = 0
    /\ calls = <<>>
    /\ observed = <<>>
    /\ last = Op("load", 0, 0, "undefined", "undefined")
    /\ layout = NoLayout

\* new Menubox2(id, options)
Construct ==
    \E id \in RootIds : \E options \in RuntimeDefinitions(id) :
        /\ Cardinality(Roots) < MaxRoots
        /\ Becomes(Menubox2(World, id, options, 0),
                   [Op("new", Len(boxes) + 1, 0, id, "undefined")
                       EXCEPT !.before = /\ MapHas(instances, id)
                                         /\ \E b \in Attached : Visible(boxes[b])])

\* menubox.popup(mouseEvent): no context is passed
PopupPlain ==
    \E b \in Attached :
        Becomes(popup(World, b, "event", "undefined", NoElement),
                Op("popup", b, 0, "undefined", "undefined"))

\* menubox.toggle(mouseEvent): no context is passed
TogglePlain ==
    \E b \in Attached :
        Becomes(toggle(World, b, "event", "undefined", NoElement),
                [Op("toggle", b, 0, "undefined", toggleResult(World, b))
                    EXCEPT !.before = Visible(boxes[b])])

NextRegistry ==
    \/ Construct
    \/ PopupPlain
    \/ Close
    \/ TogglePlain
    \/ CloseSubmenus
    \/ CloseAll
    \/ ClickItem
    \/ ClickOutside
    \/ KeyDown
    \/ MouseEnter
    \/ MouseLeave
    \/ TimerFire

SpecRegistry == InitRegistry /\ [][NextRegistry]_vars

----------------------------------------------------------------------------
(* The items of a menubox: the page assigns to their checked and enabled properties *)

InitItems ==
    \E options \in ItemDefinitions :
        LET W == Menubox2(EmptyWorld, "m1", options, 0)
        IN  /\ boxes = W.boxes
            /\ instances = W.instances
            /\ timers = W.timers
            /\ currentSubmenuTimerId = W.currentSubmenuTimerId
            /\ calls = <<>>
            /\ observed = <<>>
            /\ last = Op("new", 1, 0, "m1", "undefined")
            /\ layout = NoLayout

\* menubox.items.get(key).checked = val
SetChecked ==
    \E b \in Attached : \E e \in SeqRange(MapValues(boxes[b].items)) :
        \E val \in AssignedValues :
            Becomes(set_checked(World, b, e, val).world,
                    Op("set checked", b, e, val, set_checked(World, b, e, val).thrown))

\* menubox.items.get(key).enabled = val
SetEnabled ==
    \E b \in Attached : \E e \in SeqRange(MapValues(boxes[b].items)) :
        \E val \in AssignedValues :
            Becomes(set_enabled(World, b, e, val).world,
                    Op("set enabled", b, e, val, set_enabled(World, b, e, val).thrown))

NextItems ==
    \/ SetChecked
    \/ SetEnabled
    \/ Popup
    \/ ClickItem

SpecItems == InitItems /\ [][NextItems]_vars

----------------------------------------------------------------------------
(* The geometry of popup *)

InitLayout ==
    /\ boxes = <<>>
    /\ instances = <<>>
    /\ timers = {}
    /\ currentSubmenuTimerId = 0
    /\ calls = <<>>
    /\ observed = <<>>
    /\ last = Op("load", 0, 0, "undefined", "undefined")
    /\ layout \in Layouts

\* menubox.popup(mouseEvent, context, anchorElement) places the element
PopupLayout ==
    \E p \in PopupArguments :
        /\ layout' = popupLayout(layout, p)
        /\ last' = Op("popup", 0, 0, p, "undefined")
        /\ UNCHANGED <<boxes, instances, timers, currentSubmenuTimerId, calls, observed>>

NextLayout == PopupLayout

SpecLayout == InitLayout /\ [][NextLayout]_vars

----------------------------------------------------------------------------
(* The submenu delay: a page constructs one menubox from a definition that may give *)
(* a submenu delay, and the user hovers and clicks its items                        *)

\* new Menubox2("m1", options); the operation records the options it was given
ConstructDelay ==
    \E options \in DelayDefinitions :
        /\ instances = <<>>
        /\ Becomes(Menubox2(World, "m1", options, 0),
                   Op("new", Len(boxes) + 1, 0, options, "undefined"))

NextDelay ==
    \/ ConstructDelay
    \/ PopupPlain
    \/ ClickItem
    \/ ClickOutside
    \/ MouseEnter
    \/ MouseLeave
    \/ TimerFire

SpecDelay == InitRegistry /\ [][NextDelay]_vars

----------------------------------------------------------------------------
(* A page with elements whose click handlers pop a menubox up: only the user acts *)

\* the user clicks an element of the page whose click handler pops up menubox b,
\* passing the click event on or not
ClickOpener ==
    \E b \in Attached, mouseEvent \in {"event", "undefined"}, context \in Contexts :
        Becomes(DispatchOpenerClick(World, b, mouseEvent, context),
                Op("clickOpener", b, 0, mouseEvent,
                   IF popupStopsPropagation(mouseEvent) THEN "stopped" ELSE "propagated"))

NextPage ==
    \/ ClickOpener
    \/ ClickItem
    \/ ClickOutside
    \/ KeyDown
    \/ MouseEnter
    \/ MouseLeave
    \/ TimerFire

SpecPage == Init /\ [][NextPage]_vars

----------------------------------------------------------------------------
(* Properties *)

RECURSIVE AncestorsIn(_, _)
\* the parent menubox of b, its parent, ... up to the root
AncestorsIn(heap, b) ==
    IF heap[b].parentMenubox = 0 THEN {}
    ELSE {heap[b].parentMenubox} \cup AncestorsIn(heap, heap[b].parentMenubox)

\* the submenus of b, their submenus, ...
DescendantsIn(heap, b) == {d \in 1..Len(heap) : b \in AncestorsIn(heap, d)}

\* the last operation was a click on element e of menubox b
Clicked(op, b, e) == op.op = "click" /\ op.box = b /\ op.item = e

\* element e of box is an item with a key (not a label, not a separator)
IsKeyed(box, e) == box.elems[e].cls = "menubox-item" /\ box.elems[e].key # ""

\* the one callback invocation fn(item e of menubox b)
OneCall(fn, b, e) == << [fn |-> fn, menubox |-> b, item |-> e] >>

\* C1: at most one root menubox of the registry is visible, whatever sequence of
\* constructions, popup, toggle, close, closeAll, clicks, hovers and timer firings
\* has been handled
C1_AtMostOneRootVisible ==
    Cardinality({b \in Attached : boxes[b].parentMenubox = 0 /\ Visible(boxes[b])}) <= 1

\* a root has just been popped up while another registered root, opened by toggle
\* before, is hidden
C1_Witness ==
    /\ last.op = "popup"
    /\ last.box \in Attached
    /\ boxes[last.box].parentMenubox = 0
    /\ Visible(boxes[last.box])
    /\ \E r \in Attached :
          /\ r # last.box
          /\ boxes[r].parentMenubox = 0
          /\ boxes[r].context = "null"
          /\ ~Visible(boxes[r])

\* C2: in a normal-mode menubox with a callback, a click on an enabled keyed item
\* without submenu and without item callback invokes the callback exactly once with
\* that item and leaves the menubox and all its ancestors hidden
C2_NormalClickFiresAndCloses ==
    [][ LET b == last'.box
            e == last'.item
        IN  ( /\ last'.op = "click"
              /\ boxes[b].selectMode = "normal"
              /\ boxes[b].callback # "undefined"
              /\ IsKeyed(boxes[b], e)
              /\ boxes[b].elems[e].enabled
              /\ boxes[b].elems[e].submenu = 0
              /\ boxes[b].elems[e].onclick = "undefined" )
            => ( /\ calls' = OneCall(boxes[b].callback, b, e)
                 /\ \A a \in {b} \cup AncestorsIn(boxes, b) : ~Visible(boxes'[a]) )
      ]_vars

\* such a click has been handled in a visible submenu of a submenu, both opened at
\* their parent items below a root that had been popped up
C2_Witness ==
    /\ last.op = "click"
    /\ last.before
    /\ Cardinality(AncestorsIn(boxes, last.box)) = 2
    /\ \A a \in {last.box} \cup AncestorsIn(boxes, last.box) :
          IF boxes[a].parentMenubox = 0 THEN boxes[a].place.by = "pointer"
          ELSE boxes[a].place.by = "anchor"
    /\ boxes[last.box].selectMode = "normal"
    /\ calls = OneCall("cb", last.box, last.item)
    /\ \A a \in {last.box} \cup AncestorsIn(boxes, last.box) : ~Visible(boxes[a])

\* C3: on a click on an enabled keyed item handled by the default click dispatch the
\* callback is invoked iff the mode is normal or multiselect_interactive, the item
\* has no submenu and a callback is registered; a visible menubox is hidden by the
\* click iff the mode is normal and the item has no submenu
C3_DefaultDispatch ==
    [][ LET b == last'.box
            e == last'.item
        IN  ( /\ last'.op = "click"
              /\ IsKeyed(boxes[b], e)
              /\ boxes[b].elems[e].enabled
              /\ boxes[b].elems[e].onclick = "undefined" )
            => ( /\ IF /\ boxes[b].selectMode \in {"normal", "multiselect_interactive"}
                       /\ boxes[b].elems[e].submenu = 0
                       /\ boxes[b].callback # "undefined"
                    THEN calls' = OneCall(boxes[b].callback, b, e)
                    ELSE calls' = <<>>
                 /\ Visible(boxes[b]) =>
                       ( ~Visible(boxes'[b]) <=>
                            ( /\ boxes[b].selectMode = "normal"
                              /\ boxes[b].elems[e].submenu = 0 ) ) )
      ]_vars

\* a click in a visible multiselect_interactive menubox has fired the callback and
\* left the menubox visible
C3_Witness ==
    /\ last.op = "click"
    /\ last.before
    /\ boxes[last.box].selectMode = "multiselect_interactive"
    /\ calls = OneCall("cb", last.box, last.item)
    /\ Visible(boxes[last.box])

\* C4: in a persistent menubox with a callback, a click on an enabled keyed item
\* (without submenu and item callback) calls the callback and leaves the menubox open
C4_PersistentFiresCallback ==
    [][ LET b == last'.box
            e == last'.item
        IN  ( /\ last'.op = "click"
              /\ boxes[b].selectMode = "persistent"
              /\ boxes[b].callback # "undefined"
              /\ IsKeyed(boxes[b], e)
              /\ boxes[b].elems[e].enabled
              /\ boxes[b].elems[e].submenu = 0
              /\ boxes[b].elems[e].onclick = "undefined" )
            => ( /\ calls' = OneCall(boxes[b].callback, b, e)
                 /\ Visible(boxes[b]) => Visible(boxes'[b]) )
      ]_vars

\* the element indices res are the checked keyed items of box in definition order
CheckedInOrder(box, res) ==
    /\ \A i, j \in 1..Len(res) : i < j => res[i] < res[j]
    /\ SeqRange(res) = {e \in 1..Len(box.elems) : IsKeyed(box, e) /\ box.elems[e].checked}

\* a click on element e of box b changes the checked flag of no other item
OthersKeepChecked(b, e) ==
    \A b2 \in Attached : \A e2 \in 1..Len(boxes[b2].elems) :
        <<b2, e2>> # <<b, e>> => boxes'[b2].elems[e2].checked = boxes[b2].elems[e2].checked

\* getCheckedItems returns the checked keyed items in definition order, in every menubox
GetCheckedItemsExact ==
    \A b \in Attached : CheckedInOrder(boxes[b], getCheckedItems(boxes[b]))

\* C5 as claimed: in a multiselect menubox every click on an enabled keyed item flips
\* the checked flag of that item only, and getCheckedItems returns exactly the checked
\* items in definition order
C5_EveryClickFlips ==
    /\ [][ LET b == last'.box
               e == last'.item
           IN  ( /\ last'.op = "click"
                 /\ boxes[b].selectMode \in {"multiselect", "multiselect_interactive"}
                 /\ IsKeyed(boxes[b], e)
                 /\ boxes[b].elems[e].enabled )
               => ( /\ boxes'[b].elems[e].checked = ~boxes[b].elems[e].checked
                    /\ OthersKeepChecked(b, e) )
         ]_vars
    /\ []GetCheckedItemsExact

\* C5 as amended: in a multiselect menubox a click on an enabled keyed item flips the
\* checked flag of that item only, unless the item has an item callback and no
\* submenu, in which case no flag changes; getCheckedItems returns exactly the checked
\* keyed items in definition order
C5_DefaultDispatchFlips ==
    /\ [][ LET b == last'.box
               e == last'.item
           IN  ( /\ last'.op = "click"
                 /\ boxes[b].selectMode \in {"multiselect", "multiselect_interactive"}
                 /\ IsKeyed(boxes[b], e)
                 /\ boxes[b].elems[e].enabled )
               => ( /\ boxes'[b].elems[e].checked =
                          IF boxes[b].elems[e].onclick = "undefined"
                          THEN ~boxes[b].elems[e].checked
                          ELSE boxes[b].elems[e].checked
                    /\ OthersKeepChecked(b, e) )
         ]_vars
    /\ []GetCheckedItemsExact

\* a click in a multiselect_interactive menubox has checked an item that stands before
\* another checked item
C5_Witness ==
    /\ last.op = "click"
    /\ boxes[last.box].selectMode = "multiselect_interactive"
    /\ boxes[last.box].elems[last.item].checked
    /\ Len(getCheckedItems(boxes[last.box])) >= 2
    /\ getCheckedItems(boxes[last.box])[1] = last.item

\* C6: a click on a disabled item or on a label changes nothing and invokes no callback
C6_DisabledOrLabelClickIsInert ==
    [][ LET b == last'.box
            e == last'.item
        IN  ( /\ last'.op = "click"
              /\ \/ ~boxes[b].elems[e].enabled
                 \/ boxes[b].elems[e].cls = "menubox-label" )
            => ( /\ calls' = <<>>
                 /\ UNCHANGED <<boxes, instances, timers, currentSubmenuTimerId>> )
      ]_vars

\* a disabled item that owns a submenu has been clicked in a visible menubox, and
\* the submenu is hidden
C6_Witness ==
    /\ last.op = "click"
    /\ last.before
    /\ ~boxes[last.box].elems[last.item].enabled
    /\ boxes[last.box].elems[last.item].submenu # 0
    /\ ~Visible(boxes[boxes[last.box].elems[last.item].submenu])
    /\ Visible(boxes[last.box])

\* C7: a click on an enabled item that owns a submenu invokes no callback, does not
\* hide the item's menubox and shows the submenu, placed at the item
C7_SubmenuItemClickOpens ==
    [][ LET b == last'.box
            e == last'.item
            sub == boxes[b].elems[e].submenu
        IN  ( /\ last'.op = "click"
              /\ boxes[b].elems[e].enabled
              /\ sub # 0 )
            => ( /\ calls' = <<>>
                 /\ Visible(boxes[b]) => Visible(boxes'[b])
                 /\ Visible(boxes'[sub])
                 /\ boxes'[sub].place = [by |-> "anchor", menubox |-> b, item |-> e] )
      ]_vars

\* item "x", whose definition carries a callback and a submenu, has been clicked in a
\* visible persistent menubox
C7_Witness ==
    /\ last.op = "click"
    /\ last.before
    /\ boxes[last.box].selectMode = "persistent"
    /\ boxes[last.box].elems[last.item].key = "x"
    /\ boxes[last.box].elems[last.item].submenu # 0
    /\ Visible(boxes[boxes[last.box].elems[last.item].submenu])
    /\ Visible(boxes[last.box])

\* C8: toggle returns whether the menubox is visible after the call, and the second
\* of two consecutive toggle calls on a menubox restores the visibility it had before
\* the first
C8_ToggleInvolutive ==
    [][ LET b == last'.box
        IN  last'.op = "toggle"
            => ( /\ last'.result = Visible(boxes'[b])
                 /\ (last.op = "toggle" /\ last.box = b)
                        => Visible(boxes'[b]) = last.before )
      ]_vars

\* C9: close(true) hides the menubox and all its descendants and leaves its ancestors
\* as they are; close(false) and close() on a submenu hide it and all its ancestors
C9_CloseDownOrUp ==
    [][ LET b == last'.box
        IN  last'.op = "close"
            => IF last'.arg = "true"
               THEN /\ \A d \in {b} \cup DescendantsIn(boxes, b) : ~Visible(boxes'[d])
                    /\ \A a \in AncestorsIn(boxes, b) :
                           Visible(boxes'[a]) = Visible(boxes[a])
               ELSE \A a \in {b} \cup AncestorsIn(boxes, b) : ~Visible(boxes'[a])
      ]_vars

\* close(true) has been called on a submenu that has a submenu, below a visible root
C9_Witness ==
    /\ last.op = "close"
    /\ last.arg = "true"
    /\ boxes[last.box].parentMenubox # 0
    /\ DescendantsIn(boxes, last.box) # {}
    /\ \A d \in DescendantsIn(boxes, last.box) : boxes[d].place.by = "anchor"
    /\ Visible(boxes[boxes[last.box].parentMenubox])

\* the operation hides menubox b by close without closeSubmenus = true: a call of
\* close(false) or close(), or a click that ends in this.menubox.close()
ClosesPlainly(op, b) ==
    /\ op.box = b
    /\ \/ op.op = "close" /\ op.arg # "true"
       \/ /\ op.op = "click"
          /\ IsKeyed(boxes[b], op.item)
          /\ boxes[b].elems[op.item].enabled
          /\ boxes[b].elems[op.item].submenu = 0
          /\ boxes[b].selectMode = "normal" \/ boxes[b].elems[op.item].onclick # "undefined"

\* the operation hides menubox b by close(true): a call of it, or a toggle that closes
ClosesWithSubmenus(op, b) ==
    /\ op.box = b
    /\ \/ op.op = "close" /\ op.arg = "true"
       \/ op.op = "toggle" /\ op.result = FALSE

\* C10 as claimed: after every call that hides a menubox, all descendant submenus of
\* that menubox are hidden
C10_EveryCloseIsTransitive ==
    [][ \A b \in Attached :
            (ClosesPlainly(last', b) \/ ClosesWithSubmenus(last', b))
            => \A d \in DescendantsIn(boxes, b) : ~Visible(boxes'[d])
      ]_vars

\* C10 as amended: after close(true), and after a toggle that closes, all descendant
\* submenus of the menubox are hidden; close(false), close() and the close performed
\* by an item click leave the visibility of every descendant submenu as it was
C10_OnlyCloseTrueIsTransitive ==
    [][ \A b \in Attached :
            /\ ClosesWithSubmenus(last', b)
                  => \A d \in DescendantsIn(boxes, b) : ~Visible(boxes'[d])
            /\ ClosesPlainly(last', b)
                  => \A d \in DescendantsIn(boxes, b) :
                         Visible(boxes'[d]) = Visible(boxes[d])
      ]_vars

\* close() has hidden a root whose submenu and sub-submenu are still visible
C10_Witness ==
    /\ last.op = "close"
    /\ last.arg = "undefined"
    /\ boxes[last.box].parentMenubox = 0
    /\ ~Visible(boxes[last.box])
    /\ \E d \in DescendantsIn(boxes, last.box) :
          /\ Visible(boxes[d])
          /\ \E d2 \in DescendantsIn(boxes, d) : Visible(boxes[d2])

\* C11: entering an item that owns a submenu arms a timeout with the submenu delay of
\* the item's menubox; when that timeout fires the submenu becomes visible, placed at
\* the hovered item; after the pointer has left a menubox no timeout is pending, so the
\* hover opens nothing
C11_HoverOpensAfterDelay ==
    [][ LET b == last'.box
            e == last'.item
        IN  /\ (last'.op = "mouseenter" /\ boxes[b].elems[e].submenu # 0)
                  => timers' = {[id |-> currentSubmenuTimerId', menubox |-> b, item |-> e,
                                 delay |-> boxes[b].submenuDelay]}
            /\ last'.op = "timer"
                  => LET sub == boxes[b].elems[e].submenu
                     IN  /\ Visible(boxes'[sub])
                         /\ boxes'[sub].place = [by |-> "anchor", menubox |-> b, item |-> e]
                         /\ \A t \in timers : (t.menubox = b /\ t.item = e) => t \notin timers'
            /\ last'.op = "mouseleave" => timers' = {}
      ]_vars

\* the timeout armed by hovering an item of a visible submenu has fired and has opened
\* the submenu of that item
C11_Witness ==
    /\ last.op = "timer"
    /\ boxes[last.box].parentMenubox # 0
    /\ Visible(boxes[last.box])
    /\ Visible(boxes[boxes[last.box].elems[last.item].submenu])
    /\ timers = {}

\* C12: at most one timeout is pending, and it is the one currentSubmenuTimerId names;
\* arming a timeout by entering an item leaves that new timeout as the only pending one
C12_OneTimerPending ==
    /\ [](/\ Cardinality(timers) <= 1
          /\ \A t \in timers : t.id = currentSubmenuTimerId)
    /\ [][ (last'.op = "mouseenter" /\ boxes[last'.box].elems[last'.item].submenu # 0)
              => /\ timers' = {[id |-> currentSubmenuTimerId', menubox |-> last'.box,
                                item |-> last'.item,
                                delay |-> boxes[last'.box].submenuDelay]}
                 /\ timers' \cap timers = {}
         ]_vars

\* while a timeout was pending the pointer has entered item "v", which owns a submenu,
\* and the timeout for "v" is pending now
C12_Witness ==
    /\ last.op = "mouseenter"
    /\ last.before
    /\ boxes[last.box].elems[last.item].key = "v"
    /\ \E t \in timers : t.menubox = last.box /\ t.item = last.item

\* C13: closeSubmenus hides every descendant submenu of the menubox, leaves the
\* visibility of the menubox and of its ancestors as it was, and leaves no timeout
\* pending
C13_CloseSubmenusFrame ==
    [][ LET b == last'.box
        IN  last'.op = "closeSubmenus"
            => /\ \A d \in DescendantsIn(boxes, b) : ~Visible(boxes'[d])
               /\ \A a \in {b} \cup AncestorsIn(boxes, b) :
                      Visible(boxes'[a]) = Visible(boxes[a])
               /\ timers' = {}
      ]_vars

\* closeSubmenus has been called on a visible root while a submenu of it was visible
\* and a timeout was pending; the submenu is hidden and nothing is pending
C13_Witness ==
    /\ last.op = "closeSubmenus"
    /\ last.before
    /\ boxes[last.box].parentMenubox = 0
    /\ Visible(boxes[last.box])
    /\ \E d \in DescendantsIn(boxes, last.box) :
          boxes[d].place.by = "anchor" /\ ~Visible(boxes[d])
    /\ timers = {}

\* C14: after new Menubox2(id, options) the registry maps id to the new instance and,
\* for every keyed item with a submenu definition, id.key to the new submenu of that
\* item; and every registered menubox is hidden
C14_ConstructRegistersAndHides ==
    [][ last'.op = "new"
        => LET id   == last'.arg
               self == last'.box
           IN  /\ self = Len(boxes) + 1
               /\ MapGet(instances', id) = self
               /\ boxes'[self].id = id
               /\ boxes'[self].parentMenubox = 0
               /\ \A options \in RuntimeDefinitions(id) :
                     \A k \in 1..Len(options.items) :
                        (Has(options.items[k], "key") /\ Has(options.items[k], "submenu"))
                        => LET sub == MapGet(instances', id \o "." \o options.items[k].key)
                           IN  /\ sub > Len(boxes)
                               /\ boxes'[sub].parentMenubox = self
                               /\ boxes'[self].elems[k].submenu = sub
               /\ \A b \in SeqRange(MapValues(instances')) : ~Visible(boxes'[b])
      ]_vars

\* "m1", which has a submenu, has been constructed again while it was registered and a
\* menubox was visible
C14_Witness ==
    /\ last.op = "new"
    /\ last.arg = "m1"
    /\ last.before
    /\ MapGet(instances, "m1") = last.box
    /\ MapGet(instances, "m1.x") > last.box
    /\ \A b \in Attached : ~Visible(boxes[b])

\* the click on element e of menubox b ends in no close of the handlers: the element
\* is a label, a separator or a disabled item, or it has no item callback and either
\* owns a submenu or lies in a menubox that is not in normal mode
ClickClosesNothing(b, e) ==
    \/ ~IsKeyed(boxes[b], e)
    \/ ~boxes[b].elems[e].enabled
    \/ /\ boxes[b].elems[e].onclick = "undefined"
       /\ boxes[b].elems[e].submenu # 0 \/ boxes[b].selectMode # "normal"

\* C15: after a click outside every menubox and after a key-down of Escape every
\* registered menubox is hidden; a click inside menubox b hides no menubox other than
\* b and its ancestors, and none at all when its handlers close nothing
C15_GlobalDismissal ==
    [][ /\ (last'.op = "clickOutside" \/ (last'.op = "keydown" /\ last'.arg = "Escape"))
              => \A b \in SeqRange(MapValues(instances')) : ~Visible(boxes'[b])
        /\ last'.op = "click"
              => LET b == last'.box
                     chain == IF ClickClosesNothing(b, last'.item) THEN {}
                              ELSE {b} \cup AncestorsIn(boxes, b)
                 IN  \A d \in Attached \ chain : Visible(boxes[d]) => Visible(boxes'[d])
      ]_vars

\* Escape has been pressed while a menubox with a submenu that has been opened was
\* visible, and every registered menubox is hidden
C15_Witness ==
    /\ last.op = "keydown"
    /\ last.arg = "Escape"
    /\ last.before
    /\ \E d \in Attached : boxes[d].parentMenubox # 0 /\ boxes[d].place.by = "anchor"
    /\ \A b \in Attached : ~Visible(boxes[b])

\* C16: assigning a value that is no boolean to checked or enabled throws a TypeError
\* and changes nothing; assigning the boolean val makes the getter return val and
\* leaves the other property and every other item as they were
C16_SettersTypeChecked ==
    [][ LET b   == last'.box
            e   == last'.item
            val == last'.arg
        IN  last'.op \in {"set checked", "set enabled"}
            => IF val \notin {"true", "false"}
               THEN /\ last'.result = "TypeError"
                    /\ boxes' = boxes
               ELSE /\ last'.result = "none"
                    /\ last'.op = "set checked"
                          => /\ get_checked([boxes |-> boxes'], b, e) = (val = "true")
                             /\ boxes' = [boxes EXCEPT ![b].elems[e].checked = (val = "true")]
                    /\ last'.op = "set enabled"
                          => /\ get_enabled([boxes |-> boxes'], b, e) = (val = "true")
                             /\ boxes' = [boxes EXCEPT ![b].elems[e].enabled = (val = "true")]
      ]_vars

\* the number 0 has been assigned to the checked property of a checked item, the
\* assignment has thrown and the item is still checked
C16_Witness ==
    /\ last.op = "set checked"
    /\ last.arg = "0"
    /\ last.result = "TypeError"
    /\ boxes[last.box].elems[last.item].checked
    /\ boxes[last.box].elems[last.item].key = "a"

\* C17 as claimed: when the element, placed by popup, ends right of or below the
\* viewport, then after popup its rectangle lies within the viewport and, if it is
\* higher than the viewport, the item list is shortened by the excess and scrolls
C17_ClampedIntoViewport ==
    [][ LET placed == getBoundingClientRect(popupPlace(layout, last'.arg))
            rect   == getBoundingClientRect(layout')
        IN  (placed.right > layout.viewport.width \/ placed.bottom > layout.viewport.height)
            => /\ rect.left >= 0
               /\ rect.top >= 0
               /\ rect.right <= layout.viewport.width
               /\ rect.bottom <= layout.viewport.height
               /\ placed.height > layout.viewport.height
                     => /\ layout'.itemsStyle.overflowY = "scroll"
                        /\ layout'.itemsStyle.height = layout.itemsOffsetHeight
                               - (placed.height - layout.viewport.height)
      ]_vars

\* C17 as amended: each direction is clamped on its own.  An element that ends right
\* of the viewport is pulled in to the right edge of the viewport, but not left of the
\* scroll origin, so that it lies within the width of the viewport unless it is wider;
\* one that ends below the viewport is pulled in to the bottom edge, but not above the
\* scroll origin, and if it is higher than the viewport the item list is shortened by
\* the excess and scrolls, so that it lies within the height of the viewport; a
\* direction in which the element does not end outside keeps its placement
C17_ClampedPerDirection ==
    [][ LET placed == getBoundingClientRect(popupPlace(layout, last'.arg))
            rect   == getBoundingClientRect(layout')
            vw     == layout.viewport.width
            vh     == layout.viewport.height
        IN  /\ IF placed.right > vw
               THEN /\ rect.left = Max(0, vw - placed.width)
                    /\ placed.width <= vw => rect.right = vw
               ELSE rect.left = placed.left
            /\ IF placed.bottom > vh
               THEN /\ rect.top = Max(0, vh - placed.height)
                    /\ rect.bottom = vh
                    /\ IF placed.height > vh
                       THEN /\ layout'.itemsStyle.overflowY = "scroll"
                            /\ layout'.itemsStyle.height =
                                   layout.itemsOffsetHeight - (placed.height - vh)
                       ELSE layout'.itemsStyle = [height |-> NullLength, overflowY |-> "null"]
               ELSE /\ rect.top = placed.top
                    /\ layout'.itemsStyle = [height |-> NullLength, overflowY |-> "null"]
      ]_vars

\* an element higher than the viewport has been popped up at a pointer position in a
\* scrolled document: it lies at the scroll origin and its item list scrolls
C17_Witness ==
    /\ layout.position = "absolute"
    /\ layout.scrollTop > 0
    /\ layout.offsetHeight > layout.viewport.height
    /\ last.op = "popup"
    /\ last.arg.mouseEvent = "event"
    /\ last.arg.anchorElement = "undefined"
    /\ layout.style.top = layout.scrollTop
    /\ layout.itemsStyle.overflowY = "scroll"
    /\ getBoundingClientRect(layout).bottom = layout.viewport.height

\* C18: the submenu delay of a constructed menubox is 300 when the definition gives
\* none, and otherwise the given delay d clamped to at least 0, max(d, 0)
C18_DelayClamped ==
    [][ (last'.op = "new" /\ instances = <<>>)
        => LET options == last'.arg
           IN  boxes'[last'.box].submenuDelay =
                   IF Has(options, "submenuDelay") THEN Max(options.submenuDelay, 0)
                   ELSE 300
      ]_vars

\* C19: a click on an item of a visible multiselect menubox does not hide the menubox
C19_MultiselectStaysOpen ==
    [][ LET b == last'.box
        IN  ( /\ last'.op = "click"
              /\ boxes[b].selectMode \in {"multiselect", "multiselect_interactive"}
              /\ Visible(boxes[b]) )
            => Visible(boxes'[b])
      ]_vars

\* C20: when the handler of a click outside every menubox pops a menubox up and hands
\* the event to popup, the propagation is stopped and the menubox is visible after the
\* click; when it does not hand the event on, the click reaches the window listener
\* and every menubox is hidden after the click, the popped up one having got its
\* context
C20_OpenerMustPassEvent ==
    [][ LET b == last'.box
        IN  last'.op = "clickOpener"
            => IF last'.arg = "event"
               THEN /\ last'.result = "stopped"
                    /\ Visible(boxes'[b])
               ELSE /\ last'.result = "propagated"
                    /\ \A d \in Attached : ~Visible(boxes'[d])
                    /\ boxes'[b].context \in Contexts
      ]_vars

\* a click handler has popped up a submenu without handing the event on, while the
\* root was visible: the submenu has got its context, and everything is hidden
C20_Witness ==
    /\ last.op = "clickOpener"
    /\ last.arg = "undefined"
    /\ boxes[last.box].parentMenubox # 0
    /\ boxes[last.box].context \in Contexts
    /\ boxes[boxes[last.box].parentMenubox].place.by = "pointer"
    /\ \A d \in Attached : ~Visible(boxes[d])

RECURSIVE RootIn(_, _)
\* the root menubox above b
RootIn(heap, b) ==
    IF heap[b].parentMenubox = 0 THEN b ELSE RootIn(heap, heap[b].parentMenubox)

\* the last operation opens the submenu of item e of menubox b: the timeout armed by
\* hovering the item fires, or the item, keyed and enabled, is clicked
OpensSubmenuOf(op, heap, b, e) ==
    /\ op.box = b
    /\ op.item = e
    /\ heap[b].elems[e].submenu # 0
    /\ \/ op.op = "timer"
       \/ op.op = "click" /\ IsKeyed(heap[b], e) /\ heap[b].elems[e].enabled

\* C21: every submenu, at every depth, has the callback of its root menubox, and no
\* callback of a submenu's own definition is ever invoked; and when a submenu is opened
\* by the hover timeout or by a click on its parent item, it is visible and its context
\* is the context its parent menubox holds at that moment
C21_SubmenuInherits ==
    /\ [](/\ \A b \in Attached : boxes[b].callback = boxes[RootIn(boxes, b)].callback
          /\ \A i \in 1..Len(calls) : calls[i].fn # "subCb")
    /\ [][ \A b \in Attached : \A e \in 1..Len(boxes[b].elems) :
             OpensSubmenuOf(last', boxes, b, e)
             => LET submenu == boxes[b].elems[e].submenu
                IN  /\ Visible(boxes'[submenu])
                    /\ boxes'[submenu].context = boxes[b].context
                    /\ boxes'[b].context = boxes[b].context
         ]_vars

\* the timeout of a hovered item of a submenu, whose definition gave a callback of its
\* own, has fired: the submenu of that item is visible with the context the root was
\* popped up with, and both submenus have the root's callback
C21_Witness ==
    /\ last.op = "timer"
    /\ boxes[last.box].parentMenubox # 0
    /\ boxes[last.box].id = "m1.x"
    /\ boxes[last.box].callback = "cb"
    /\ LET submenu == boxes[last.box].elems[last.item].submenu
       IN  /\ Visible(boxes[submenu])
           /\ boxes[submenu].context = "ctxA"
           /\ boxes[submenu].callback = "cb"

\* C22: a click on an enabled keyed item without submenu that has an item callback
\* invokes the item callback exactly once with the item and nothing else, changes no
\* checked flag, and hides the menubox and its ancestors, in every select-mode
C22_ItemCallbackShortCircuits ==
    [][ LET b == last'.box
            e == last'.item
        IN  ( /\ last'.op = "click"
              /\ IsKeyed(boxes[b], e)
              /\ boxes[b].elems[e].enabled
              /\ boxes[b].elems[e].submenu = 0
              /\ boxes[b].elems[e].onclick # "undefined" )
            => ( /\ calls' = OneCall(boxes[b].elems[e].onclick, b, e)
                 /\ boxes[b].elems[e].onclick # boxes[b].callback
                 /\ \A d \in Attached : \A i \in 1..Len(boxes[d].elems) :
                       /\ boxes'[d].elems[i].checked = boxes[d].elems[i].checked
                       /\ boxes'[d].elems[i].enabled = boxes[d].elems[i].enabled
                 /\ \A a \in {b} \cup AncestorsIn(boxes, b) : ~Visible(boxes'[a]) )
      ]_vars

\* the item with an item callback has been clicked in a visible multiselect_interactive
\* menubox that has a callback: only the item callback was invoked, the item is
\* unchecked and the menubox is hidden
C22_Witness ==
    /\ last.op = "click"
    /\ last.before
    /\ boxes[last.box].selectMode = "multiselect_interactive"
    /\ boxes[last.box].callback = "cb"
    /\ calls = OneCall("itemCb", last.box, last.item)
    /\ ~boxes[last.box].elems[last.item].checked
    /\ ~Visible(boxes[last.box])

\* C23: when the default click dispatch invokes the callback for a click on an enabled
\* keyed item, it invokes it once; in a multiselect mode the callback finds the item
\* with its new, toggled checked state, and in normal mode the callback finds the
\* menubox as it was before the click, a visible menubox being hidden only afterwards
C23_DispatchOrder ==
    [][ LET b == last'.box
            e == last'.item
        IN  ( /\ last'.op = "click"
              /\ IsKeyed(boxes[b], e)
              /\ boxes[b].elems[e].enabled
              /\ boxes[b].elems[e].onclick = "undefined"
              /\ calls' # <<>> )
            => ( /\ Len(calls') = 1
                 /\ Len(observed') = 1
                 /\ isMultiselect(boxes[b])
                       => /\ observed'[1].checked = ~boxes[b].elems[e].checked
                          /\ observed'[1].checked = boxes'[b].elems[e].checked
                 /\ boxes[b].selectMode = "normal"
                       => /\ observed'[1].visible = Visible(boxes[b])
                          /\ observed'[1].checked = boxes[b].elems[e].checked
                          /\ ~Visible(boxes'[b]) )
      ]_vars

\* an unchecked item of a visible multiselect_interactive menubox has been clicked: the
\* callback found it checked
C23_Witness ==
    /\ last.op = "click"
    /\ last.before
    /\ boxes[last.box].selectMode = "multiselect_interactive"
    /\ calls = OneCall("cb", last.box, last.item)
    /\ observed = << [checked |-> TRUE, visible |-> TRUE] >>
    /\ boxes[last.box].elems[last.item].checked

\* C24: a visible submenu has a visible parent menubox, whatever constructions, calls
\* of popup, toggle, close, closeSubmenus and closeAll, key presses, clicks, hovers and
\* timeouts have been handled
C24_VisibleSubmenuUnderVisibleParent ==
    \A b \in Attached :
        (boxes[b].parentMenubox # 0 /\ Visible(boxes[b]))
        => Visible(boxes[boxes[b].parentMenubox])

\* the visible direct submenus of menubox b in a heap
VisibleSubmenusIn(heap, b) ==
    {d \in 1..Len(heap) : /\ ~Has(heap[d], "collected")
                          /\ heap[d].parentMenubox = b
                          /\ Visible(heap[d])}

\* C25: at most one of the direct submenus of a menubox is visible; and when a submenu
\* is opened by the hover timeout or by a click on its parent item, no other submenu
\* of the same parent is visible afterwards
C25_OneSubmenuVisible ==
    /\ [](\A b \in Attached : Cardinality(VisibleSubmenusIn(boxes, b)) <= 1)
    /\ [][ \A b \in Attached : \A e \in 1..Len(boxes[b].elems) :
             OpensSubmenuOf(last', boxes, b, e)
             => VisibleSubmenusIn(boxes', b) = {boxes[b].elems[e].submenu}
         ]_vars

\* item e of menubox b has the checked and enabled flags it had before the step
KeepsItemState(b, e) ==
    /\ boxes'[b].elems[e].checked = boxes[b].elems[e].checked
    /\ boxes'[b].elems[e].enabled = boxes[b].elems[e].enabled

\* C26: popup, close, toggle, closeSubmenus, closeAll, a hover, a pointer-leave, a
\* firing timeout, a key press and a click outside change no item's checked or enabled
\* flag; a click on an item changes no enabled flag and no checked flag of another item
C26_VisibilityKeepsItemState ==
    [][ \A b \in Attached : \A e \in 1..Len(boxes[b].elems) :
          /\ Len(boxes'[b].elems) = Len(boxes[b].elems)
          /\ last'.op \in {"popup", "close", "toggle", "closeSubmenus", "closeAll",
                           "mouseenter", "mouseleave", "timer", "keydown", "clickOutside"}
                => KeepsItemState(b, e)
          /\ last'.op = "click"
                => /\ boxes'[b].elems[e].enabled = boxes[b].elems[e].enabled
                   /\ <<b, e>> # <<last'.box, last'.item>> => KeepsItemState(b, e)
      ]_vars

\* Escape has hidden a visible multiselect menubox in which a click had checked item
\* "a": that item is checked, and the disabled item "b" is checked as it was built
C26_Witness ==
    /\ last.op = "keydown"
    /\ last.arg = "Escape"
    /\ last.before
    /\ \A b \in Attached : ~Visible(boxes[b])
    /\ \E b \in Attached :
          /\ isMultiselect(boxes[b])
          /\ \E e \in 1..Len(boxes[b].elems) :
                boxes[b].elems[e].key = "a" /\ boxes[b].elems[e].checked
          /\ \E e \in 1..Len(boxes[b].elems) :
                boxes[b].elems[e].key = "b" /\ ~boxes[b].elems[e].enabled
                /\ boxes[b].elems[e].checked

====
